---- MODULE Spec2Model ----
(***************************************************************************)
(* Model of newrelic-apikeys-cli (src/src/main.rs): one run of the CLI     *)
(* from Cli::parse() to process exit.  The run parses the arguments, the   *)
(* selected builder assembles a GraphQL document and a variables map,      *)
(* NewRelicClient::execute_query posts it, reads the body, decodes the     *)
(* envelope and classifies it, the builder prints, and main exits.         *)
(***************************************************************************)
EXTENDS Integers, Sequences, FiniteSets, TLC

VARIABLES pc, cli, invoked, request, sent, response, envelope, result, ret,
          stdout, exit

vars == <<pc, cli, invoked, request, sent, response, envelope, result, ret,
          stdout, exit>>

(***************************************************************************)
(* Bounds of the model.                                                    *)
(***************************************************************************)
\* Longest `errors` array a modelled response body carries.
MaxErrors == 2

(***************************************************************************)
(* serde_json::Value, Option and HashMap.                                  *)
(***************************************************************************)
JNull == [t |-> "null"]
JStr(s) == [t |-> "str", s |-> s]
JNum(n) == [t |-> "num", n |-> n]
JArr(a) == [t |-> "arr", a |-> a]
JObj(o) == [t |-> "obj", o |-> o]

None == [some |-> FALSE]
Some(v) == [some |-> TRUE, v |-> v]

\* HashMap::new()
EmptyMap == [k \in {} |-> JNull]

\* HashMap::insert: the key is added, or its value replaced.
Insert(m, k, v) == [x \in DOMAIN m \cup {k} |-> IF x = k THEN v ELSE m[x]]

\* serde_json::Value::get(&str): Some only on an object holding the key.
Get(v, k) == IF v.t = "obj" /\ k \in DOMAIN v.o THEN Some(v.o[k]) ELSE None

\* Option::and_then(|a| a.get(k))
AndThenGet(opt, k) == IF opt.some THEN Get(opt.v, k) ELSE None

\* Option::unwrap_or
UnwrapOr(opt, d) == IF opt.some THEN opt.v ELSE d

(***************************************************************************)
(* Rendering of a serde_json::Value: `{}` (Display, compact JSON) and      *)
(* serde_json::to_string_pretty (two-space indented JSON).                 *)
(***************************************************************************)
\* Every object key the model uses, in the byte order serde_json's map
\* (a BTreeMap) iterates in.
KeyOrder ==
    << "accountId", "actor", "apiAccess", "apiAccessDeleteKeys", "column",
       "data", "deletedKeys", "errors", "id", "key", "keyId", "keyType",
       "line", "locations", "message", "name", "notes", "path", "query",
       "type", "variables" >>

SortedKeys(o) == SelectSeq(KeyOrder, LAMBDA k : k \in DOMAIN o)

RECURSIVE JoinWith(_, _)
\* [String]::join(sep)
JoinWith(parts, sep) ==
    IF Len(parts) = 0 THEN ""
    ELSE IF Len(parts) = 1 THEN parts[1]
    ELSE parts[1] \o sep \o JoinWith(Tail(parts), sep)

RECURSIVE Display(_)
\* impl fmt::Display for Value: compact JSON text; a string is quoted.
Display(v) ==
    CASE v.t = "null" -> "null"
      [] v.t = "str" -> "\"" \o v.s \o "\""
      [] v.t = "num" -> ToString(v.n)
      [] v.t = "arr" ->
           "[" \o JoinWith([i \in 1..Len(v.a) |-> Display(v.a[i])], ",") \o "]"
      [] v.t = "obj" ->
           LET ks == SortedKeys(v.o)
           IN  "{" \o JoinWith([i \in 1..Len(ks) |->
                          "\"" \o ks[i] \o "\":" \o Display(v.o[ks[i]])], ",")
                   \o "}"

RECURSIVE Indent(_)
Indent(n) == IF n = 0 THEN "" ELSE "  " \o Indent(n - 1)

RECURSIVE Pretty(_, _)
\* serde_json::to_string_pretty, at nesting depth d.
Pretty(v, d) ==
    CASE v.t = "null" -> "null"
      [] v.t = "str" -> "\"" \o v.s \o "\""
      [] v.t = "num" -> ToString(v.n)
      [] v.t = "arr" ->
           IF Len(v.a) = 0 THEN "[]"
           ELSE "[\n"
                \o JoinWith([i \in 1..Len(v.a) |->
                       Indent(d + 1) \o Pretty(v.a[i], d + 1)], ",\n")
                \o "\n" \o Indent(d) \o "]"
      [] v.t = "obj" ->
           LET ks == SortedKeys(v.o)
           IN  IF Len(ks) = 0 THEN "{}"
               ELSE "{\n"
                    \o JoinWith([i \in 1..Len(ks) |->
                           Indent(d + 1) \o "\"" \o ks[i] \o "\": "
                               \o Pretty(v.o[ks[i]], d + 1)], ",\n")
                    \o "\n" \o Indent(d) \o "}"

(***************************************************************************)
(* #[derive(Deserialize)] for GraphQLResponse, GraphQLError and Location,  *)
(* as serde_json::from_str applies them to a parsed JSON document.         *)
(***************************************************************************)
Failed == [ok |-> FALSE]
Decoded(v) == [ok |-> TRUE, v |-> v]

\* The fields of a derived struct: a JSON object is read by field name
\* (unknown names skipped, a missing name left absent); a JSON array is
\* read by position and must hold exactly one element per field.
StructFields(j, names) ==
    CASE j.t = "obj" ->
           Decoded([i \in 1..Len(names) |-> Get(j, names[i])])
      [] j.t = "arr" /\ Len(j.a) = Len(names) ->
           Decoded([i \in 1..Len(names) |-> Some(j.a[i])])
      [] OTHER -> Failed

\* A field of type Option<T>: absent or null is None.
IsNone(f) == ~f.some \/ f.v.t = "null"

\* struct Location { line: i32, column: i32 }
LocationOk(j) ==
    LET fs == StructFields(j, <<"line", "column">>)
    IN  /\ fs.ok
        /\ \A i \in 1..2 : fs.v[i].some /\ fs.v[i].v.t = "num"

\* locations: Option<Vec<Location>>
LocationsOk(f) ==
    \/ IsNone(f)
    \/ /\ f.v.t = "arr"
       /\ \A i \in 1..Len(f.v.a) : LocationOk(f.v.a[i])

\* path: Option<Vec<String>>
PathOk(f) ==
    \/ IsNone(f)
    \/ /\ f.v.t = "arr"
       /\ \A i \in 1..Len(f.v.a) : f.v.a[i].t = "str"

\* struct GraphQLError { message: String, locations, path }
DecodeError(j) ==
    LET fs == StructFields(j, <<"message", "locations", "path">>)
    IN  IF /\ fs.ok
           /\ fs.v[1].some /\ fs.v[1].v.t = "str"
           /\ LocationsOk(fs.v[2])
           /\ PathOk(fs.v[3])
        THEN Decoded([message |-> fs.v[1].v.s])
        ELSE Failed

\* errors: Option<Vec<GraphQLError>>
DecodeErrors(f) ==
    IF IsNone(f) THEN Decoded(None)
    ELSE IF f.v.t # "arr" THEN Failed
    ELSE LET es == [i \in 1..Len(f.v.a) |-> DecodeError(f.v.a[i])]
         IN  IF \A i \in 1..Len(es) : es[i].ok
             THEN Decoded(Some([i \in 1..Len(es) |-> es[i].v]))
             ELSE Failed

\* data: Option<serde_json::Value>
DecodeData(f) == IF IsNone(f) THEN None ELSE Some(f.v)

\* struct GraphQLResponse { data, errors }
DecodeResponse(j) ==
    LET fs == StructFields(j, <<"data", "errors">>)
        es == IF fs.ok THEN DecodeErrors(fs.v[2]) ELSE Failed
    IN  IF fs.ok /\ es.ok
        THEN Decoded([data |-> DecodeData(fs.v[1]), errors |-> es.v])
        ELSE Failed

\* serde_json::from_str::<GraphQLResponse>(&response_text): text that is
\* not JSON fails; JSON text is decoded from its document.
FromStr(text) == IF text.json THEN DecodeResponse(text.doc) ELSE Failed

(***************************************************************************)
(* anyhow::Result as execute_query and the builders return it.  An error   *)
(* keeps the kind of its source (reqwest::Error from send or text,         *)
(* serde_json::Error from from_str, the anyhow! message) and its text.     *)
(***************************************************************************)
Ok(v) == [ok |-> TRUE, v |-> v]
Err(kind, msg) == [ok |-> FALSE, err |-> [kind |-> kind, msg |-> msg]]
Unit == "()"
Pending == [pending |-> TRUE]

SendError == Err("transport", "error sending request")
BodyError == Err("transport", "error decoding response body")
JsonError == Err("decode", "serde_json::Error")

\* errors.iter().map(|e| e.message.clone()).collect()
Messages(errors) == [i \in 1..Len(errors) |-> errors[i].message]

\* Mutant of ErrorMessage: the messages joined with "," alone.
ErrorMessageTightJoin(errors) == "GraphQL errors: " \o JoinWith(Messages(errors), ",")

\* anyhow!("GraphQL errors: {}", error_messages.join(", "))
ErrorMessage(errors) == "GraphQL errors: " \o JoinWith(Messages(errors), ", ")

\* The tail of execute_query, from the decoded envelope to its result:
\* `if let Some(errors)` takes every present array, an empty one too.
Classify(decoded) ==
    IF ~decoded.ok THEN JsonError
    ELSE IF decoded.v.errors.some
         THEN Err("api", ErrorMessage(decoded.v.errors.v))
         ELSE Ok(UnwrapOr(decoded.v.data, JNull))

\* GraphQLRequest { query, variables } as .json(&request) serializes it:
\* both fields always written, variables: None as null.
RequestBody(query, variables) ==
    JObj(Insert(Insert(EmptyMap, "query", JStr(query)), "variables",
                IF variables.some THEN JObj(variables.v) ELSE JNull))

\* The request execute_query hands to send().
HttpRequest(c, query, variables) ==
    [ method |-> "POST",
      url |-> c.endpoint,
      headers |-> Insert(Insert(EmptyMap, "Content-Type", "application/json"),
                         "API-Key", c.api_key),
      body |-> RequestBody(query, variables) ]

(***************************************************************************)
(* The four builders: document, variables, and what they print.            *)
(***************************************************************************)
QueryDocument ==
    "query($id: ID!, $keyType: ApiAccessKeyType!) { actor { apiAccess { key(id: $id keyType: $keyType) { key name notes type } } } }"
CreateDocument ==
    "mutation($accountId: Int!, $keyType: ApiAccessKeyType!, $name: String!, $notes: String) { apiAccessCreateKeys(keys: [{ accountId: $accountId, keyType: $keyType, name: $name, notes: $notes }]) { createdKeys { id name type key notes } errors { message type } } }"
UpdateDocument ==
    "mutation($keyId: String!, $name: String, $notes: String) { apiAccessUpdateKeys(keys: [{ id: $keyId, name: $name, notes: $notes }]) { updatedKeys { id name type notes } errors { message type } } }"
DeleteDocument ==
    "mutation($keyId: String!) { apiAccessDeleteKeys(keys: {ingestKeyIds: $keyId}) { deletedKeys { id } errors { message type } } }"

\* Mutant of QueryVariables: each variable inserted when it was given.
QueryVariablesEither(key_type, key_id) ==
    LET v0 == IF key_id.some THEN Insert(EmptyMap, "id", JStr(key_id.v)) ELSE EmptyMap
    IN  IF key_type.some THEN Insert(v0, "keyType", JStr(key_type.v)) ELSE v0

\* query_api_keys: id and keyType are inserted only when both were given.
QueryVariables(key_type, key_id) ==
    IF key_id.some /\ key_type.some
    THEN Insert(Insert(EmptyMap, "id", JStr(key_id.v)),
                "keyType", JStr(key_type.v))
    ELSE EmptyMap

\* Mutant of CreateVariables: notes always inserted, null when not given.
CreateVariablesNullNotes(account_id, key_type, name, notes) ==
    Insert(Insert(Insert(Insert(EmptyMap, "accountId", JStr(account_id)),
                         "keyType", JStr(key_type)),
                  "name", JStr(name)),
           "notes", IF notes.some THEN JStr(notes.v) ELSE JNull)

\* create_api_key: three unconditional inserts, notes when given.
CreateVariables(account_id, key_type, name, notes) ==
    LET base == Insert(Insert(Insert(EmptyMap, "accountId", JStr(account_id)),
                              "keyType", JStr(key_type)),
                       "name", JStr(name))
    IN  IF notes.some THEN Insert(base, "notes", JStr(notes.v)) ELSE base

\* Mutant of UpdateVariables: name always inserted, null when not given.
UpdateVariablesNullName(key_id, name, notes) ==
    LET v1 == Insert(Insert(EmptyMap, "keyId", JStr(key_id)),
                     "name", IF name.some THEN JStr(name.v) ELSE JNull)
    IN  IF notes.some THEN Insert(v1, "notes", JStr(notes.v)) ELSE v1

\* update_api_key: keyId always, name and notes each when given.
UpdateVariables(key_id, name, notes) ==
    LET v0 == Insert(EmptyMap, "keyId", JStr(key_id))
        v1 == IF name.some THEN Insert(v0, "name", JStr(name.v)) ELSE v0
    IN  IF notes.some THEN Insert(v1, "notes", JStr(notes.v)) ELSE v1

\* delete_api_key: the one id, as a string.
DeleteVariables(key_id) == Insert(EmptyMap, "keyId", JStr(key_id))

\* Mutant of LookupKey: result["actor"]["apiAccess"]["key"], where indexing
\* a missing member yields null.
LookupKeyIndexed(data) ==
    LET Index(v, k) == UnwrapOr(Get(v, k), JNull)
    IN  Some(Index(Index(Index(data, "actor"), "apiAccess"), "key"))

\* result.get("actor").and_then(apiAccess).and_then(key)
LookupKey(data) == AndThenGet(AndThenGet(Get(data, "actor"), "apiAccess"), "key")

\* Mutant of QueryField: a missing field reported as null.
QueryFieldNull(key, field) == Display(UnwrapOr(Get(key, field), JNull))

\* key.get(field).unwrap_or(&Value::String("N/A")), as `{}` prints it.
QueryField(key, field) == Display(UnwrapOr(Get(key, field), JStr("N/A")))

NotFoundLine == "No API keys found or unable to retrieve keys"

\* The lines query_api_keys prints for the data execute_query returned.
QueryOutput(data) ==
    LET key == LookupKey(data)
    IN  IF key.some
        THEN << "",
                "API Key Details:",
                "Key: " \o QueryField(key.v, "key"),
                "Name: " \o QueryField(key.v, "name"),
                "Type: " \o QueryField(key.v, "type"),
                "Notes: " \o QueryField(key.v, "notes") >>
        ELSE << NotFoundLine >>

\* println!("{}", serde_json::to_string_pretty(&result)?) of create, update
\* and delete.
PassThroughOutput(data) == << Pretty(data, 0) >>

\* What a builder prints once execute_query has returned r: `?` returns
\* before any println! when r is an error.
BuilderOutput(op, r) ==
    IF ~r.ok THEN << >>
    ELSE IF op = "query" THEN QueryOutput(r.v) ELSE PassThroughOutput(r.v)

\* Mutant of BuilderReturn: the error of execute_query dropped.
BuilderReturnSwallows(r) == Ok(Unit)

\* What a builder returns once execute_query has returned r: the error of
\* `?` as it is, or Ok(()).
BuilderReturn(r) == IF r.ok THEN Ok(Unit) ELSE r

\* The exit status of main returning r.
ExitCode(r) == IF r.ok THEN 0 ELSE 1

(***************************************************************************)
(* Inputs: the command lines and the HTTP responses of the bounded model.  *)
(***************************************************************************)
OptionOf(S) == {None} \cup {Some(x) : x \in S}

DefaultEndpoint == "https://api.newrelic.com/graphql"

\* enum Commands, as clap fills it.
Commands ==
    [op : {"query"}, key_type : OptionOf({"USER"}), key_id : OptionOf({"key-123"})]
    \cup [op : {"create"}, account_id : {"12345"}, key_type : {"INGEST"},
          name : {"svc-key"}, notes : OptionOf({"made by ci"})]
    \cup [op : {"update"}, key_id : {"abc-1"}, name : OptionOf({"renamed"}),
          notes : OptionOf({"rotated"})]
    \cup [op : {"delete"}, key_id : {"key-999", "abc-1"}]

\* struct Cli
Clis ==
    [api_key : {"NRAK-TEST"}, endpoint : {DefaultEndpoint}, format : {"json"},
     verbose : BOOLEAN, command : Commands]

NoCli == [parsed |-> FALSE]

\* The exit statuses clap ends the process with inside Cli::parse():
\* 0 after --help or --version, 2 after a usage error.
ClapExitCodes == {0, 2}

Restrict(f, S) == [x \in S |-> f[x]]

SeqsUpTo(S, n) == UNION {[1..k -> S] : k \in 0..n}

ErrorTexts == {"Invalid API key", "Key not found"}

ErrorObject(m) == JObj(Insert(EmptyMap, "message", JStr(m)))

\* The error of tests::test_graphql_error_deserialization.
LocatedError ==
    JObj(Insert(Insert(Insert(EmptyMap, "message", JStr("Invalid API key")),
                       "locations",
                       JArr(<<JObj(Insert(Insert(EmptyMap, "line", JNum(1)),
                                          "column", JNum(1)))>>)),
                "path", JArr(<<JStr("actor")>>)))

\* `errors` values that decode: arrays of up to MaxErrors errors.
GoodErrors ==
    {JArr([i \in 1..Len(ms) |-> ErrorObject(ms[i])]) : ms \in SeqsUpTo(ErrorTexts, MaxErrors)}
    \cup {JArr(<<LocatedError>>),
          JArr(<<JArr(<<JStr("Key not found"), JNull, JNull>>)>>)}

\* `errors` values that do not decode as Vec<GraphQLError>.
BadErrors ==
    {JStr("oops"),
     JArr(<<JObj(EmptyMap)>>),
     JArr(<<JObj(Insert(EmptyMap, "message", JNum(1)))>>),
     JArr(<<JObj(Insert(Insert(EmptyMap, "message", JStr("Key not found")),
                        "path", JStr("actor")))>>)}

ErrorsFields == OptionOf({JNull} \cup GoodErrors \cup BadErrors)

FullKey ==
    Insert(Insert(Insert(Insert(EmptyMap, "key", JStr("abc")), "name", JStr("n")),
                  "type", JStr("USER")), "notes", JStr("some notes"))

\* Key objects with every subset of the four fields, one with a null field,
\* and a key that is null.
KeyValues ==
    {JObj(Restrict(FullKey, S)) : S \in SUBSET DOMAIN FullKey}
    \cup {JObj(Insert(FullKey, "notes", JNull)), JNull}

ActorWith(apiAccess) == JObj(Insert(EmptyMap, "actor", apiAccess))

\* Data in which the path actor.apiAccess.key ends at a key value.
KeyData == {ActorWith(JObj(Insert(EmptyMap, "apiAccess",
                JObj(Insert(EmptyMap, "key", k))))) : k \in KeyValues}

\* Data in which a segment of the path is missing.
PathlessData ==
    {JObj(EmptyMap),
     ActorWith(JNull),
     ActorWith(JObj(EmptyMap)),
     ActorWith(JObj(Insert(EmptyMap, "apiAccess", JNull))),
     ActorWith(JObj(Insert(EmptyMap, "apiAccess", JObj(EmptyMap)))),
     ActorWith(JObj(Insert(EmptyMap, "apiAccess", JArr(<<JObj(FullKey)>>))))}

DeletePayload ==
    JObj(Insert(EmptyMap, "apiAccessDeleteKeys",
         JObj(Insert(Insert(EmptyMap, "deletedKeys",
                  JArr(<<JObj(Insert(EmptyMap, "id", JStr("key-999")))>>)),
              "errors", JNull))))

DataFields == OptionOf({JNull, DeletePayload} \cup KeyData \cup PathlessData)

\* A JSON object with `data` and `errors` members where given.
Envelope(d, e) ==
    LET withData == IF d.some THEN Insert(EmptyMap, "data", d.v) ELSE EmptyMap
    IN  JObj(IF e.some THEN Insert(withData, "errors", e.v) ELSE withData)

\* JSON documents that are arrays or scalars.
OtherDocuments ==
    {JArr(<<d, e>>) : d \in {JNull, DeletePayload},
                      e \in {JNull, JArr(<<>>), JArr(<<ErrorObject("Key not found")>>),
                             JStr("oops")}}
    \cup {JArr(<<>>), JArr(<<JNull>>), JArr(<<JNull, JNull, JNull>>),
          JStr("Unauthorized"), JNum(1), JNull}

Json(doc) == [json |-> TRUE, doc |-> doc]
NotJson(raw) == [json |-> FALSE, raw |-> raw]

\* Response bodies.
Bodies ==
    {Json(Envelope(d, e)) : d \in DataFields, e \in ErrorsFields}
    \cup {Json(j) : j \in OtherDocuments}
    \cup {NotJson("<html>502 Bad Gateway</html>"), NotJson("")}

Statuses == {200, 500}

NoResponse == [received |-> FALSE]

(***************************************************************************)
(* The run.                                                                *)
(***************************************************************************)
Init ==
    /\ pc = "start"
    /\ cli = NoCli
    /\ invoked = << >>
    /\ request = Pending
    /\ sent = << >>
    /\ response = NoResponse
    /\ envelope = Pending
    /\ result = Pending
    /\ ret = Pending
    /\ stdout = << >>
    /\ exit = Pending

\* main: Cli::parse() ends the process itself (usage error, --help).
CliParseExits ==
    /\ pc = "start"
    /\ \E code \in ClapExitCodes : exit' = [code |-> code, by |-> "clap"]
    /\ pc' = "exit"
    /\ UNCHANGED <<cli, invoked, request, sent, response, envelope, result, ret,
                   stdout>>

\* main: Cli::parse() returns, the verbose lines are printed, the client is
\* built.
CliParse ==
    /\ pc = "start"
    /\ \E c \in Clis :
         /\ cli' = c
         /\ stdout' = IF c.verbose
                      THEN << "Using endpoint: " \o c.endpoint,
                              "Output format: " \o c.format >>
                      ELSE << >>
    /\ pc' = "match"
    /\ UNCHANGED <<invoked, request, sent, response, envelope, result, ret, exit>>

\* A builder, from its call to its call of execute_query.
Build(op, query, variables) ==
    /\ pc = "match"
    /\ cli.command.op = op
    /\ invoked' = Append(invoked, op)
    /\ request' = [query |-> query, variables |-> Some(variables)]
    /\ pc' = "send"
    /\ UNCHANGED <<cli, sent, response, envelope, result, ret, stdout, exit>>

query_api_keys ==
    /\ pc = "match" /\ cli.command.op = "query"
    /\ Build("query", QueryDocument,
             QueryVariables(cli.command.key_type, cli.command.key_id))

create_api_key ==
    /\ pc = "match" /\ cli.command.op = "create"
    /\ Build("create", CreateDocument,
             CreateVariables(cli.command.account_id, cli.command.key_type,
                             cli.command.name, cli.command.notes))

update_api_key ==
    /\ pc = "match" /\ cli.command.op = "update"
    /\ Build("update", UpdateDocument,
             UpdateVariables(cli.command.key_id, cli.command.name,
                             cli.command.notes))

delete_api_key ==
    /\ pc = "match" /\ cli.command.op = "delete"
    /\ Build("delete", DeleteDocument, DeleteVariables(cli.command.key_id))

\* execute_query: send().await fails; `?` returns the error.
SendFails ==
    /\ pc = "send"
    /\ sent' = Append(sent, HttpRequest(cli, request.query, request.variables))
    /\ result' = SendError
    /\ pc' = "returned"
    /\ UNCHANGED <<cli, invoked, request, response, envelope, ret, stdout, exit>>

\* execute_query: send().await yields a response, of any status.
SendResponds ==
    /\ pc = "send"
    /\ sent' = Append(sent, HttpRequest(cli, request.query, request.variables))
    /\ \E st \in Statuses, body \in Bodies :
         response' = [received |-> TRUE, status |-> st, body |-> body]
    /\ pc' = "text"
    /\ UNCHANGED <<cli, invoked, request, envelope, result, ret, stdout, exit>>

\* execute_query: response.text().await fails; `?` returns the error.
TextFails ==
    /\ pc = "text"
    /\ result' = BodyError
    /\ pc' = "returned"
    /\ UNCHANGED <<cli, invoked, request, sent, response, envelope, ret, stdout,
                   exit>>

\* execute_query: the body is read, decoded and classified.
TextDecodes ==
    /\ pc = "text"
    /\ envelope' = FromStr(response.body)
    /\ result' = Classify(envelope')
    /\ pc' = "returned"
    /\ UNCHANGED <<cli, invoked, request, sent, response, ret, stdout, exit>>

\* A builder, from the return of execute_query to its own return.
Resume(op) ==
    /\ pc = "returned"
    /\ cli.command.op = op
    /\ stdout' = stdout \o BuilderOutput(op, result)
    /\ ret' = BuilderReturn(result)
    /\ pc' = "main"
    /\ UNCHANGED <<cli, invoked, request, sent, response, envelope, result, exit>>

query_api_keys_resumes ==
    /\ pc = "returned" /\ cli.command.op = "query"
    /\ Resume("query")

create_api_key_resumes ==
    /\ pc = "returned" /\ cli.command.op = "create"
    /\ Resume("create")

update_api_key_resumes ==
    /\ pc = "returned" /\ cli.command.op = "update"
    /\ Resume("update")

delete_api_key_resumes ==
    /\ pc = "returned" /\ cli.command.op = "delete"
    /\ Resume("delete")

\* main: `?` on the builder's result, or Ok(()).
MainReturns ==
    /\ pc = "main"
    /\ exit' = [code |-> ExitCode(ret), by |-> "main", result |-> ret]
    /\ pc' = "exit"
    /\ UNCHANGED <<cli, invoked, request, sent, response, envelope, result, ret,
                   stdout>>

Next ==
    \/ CliParseExits
    \/ CliParse
    \/ query_api_keys
    \/ create_api_key
    \/ update_api_key
    \/ delete_api_key
    \/ SendFails
    \/ SendResponds
    \/ TextFails
    \/ TextDecodes
    \/ query_api_keys_resumes
    \/ create_api_key_resumes
    \/ update_api_key_resumes
    \/ delete_api_key_resumes
    \/ MainReturns

Spec == Init /\ [][Next]_vars

(***************************************************************************)
(* Vocabulary of the properties, stated on the data and not through the    *)
(* operators of the program.                                               *)
(***************************************************************************)
\* execute_query got as far as decoding a body into an envelope.
EnvelopeDecoded == envelope # Pending /\ envelope.ok

\* The messages of the decoded errors, joined with ", " from the left.
RECURSIVE CommaJoined(_, _)
CommaJoined(errors, n) ==
    IF n = 0 THEN ""
    ELSE IF n = 1 THEN errors[1].message
    ELSE CommaJoined(errors, n - 1) \o ", " \o errors[n].message

\* The decoded envelope carries at least one error.
HasErrors == EnvelopeDecoded /\ envelope.v.errors.some /\ Len(envelope.v.errors.v) > 0

\* The decoded envelope carries no error: `errors` absent (or null), or an
\* empty array.
NoErrors ==
    /\ EnvelopeDecoded
    /\ envelope.v.errors.some => Len(envelope.v.errors.v) = 0

HasMember(v, k) == v.t = "obj" /\ k \in DOMAIN v.o

\* Every segment of actor.apiAccess.key is there in d.
PathPresent(d) ==
    /\ HasMember(d, "actor")
    /\ HasMember(d.o["actor"], "apiAccess")
    /\ HasMember(d.o["actor"].o["apiAccess"], "key")

KeyAt(d) == d.o["actor"].o["apiAccess"].o["key"]

\* The lines printed after main's verbose preamble: the builder's lines.
Printed ==
    IF cli # NoCli /\ cli.verbose
    THEN SubSeq(stdout, 3, Len(stdout))
    ELSE stdout

\* The builder named op has returned.
Returned(op) == pc \in {"main", "exit"} /\ cli # NoCli /\ cli.command.op = op

\* The builder named op has called execute_query.
Called(op) == cli # NoCli /\ cli.command.op = op /\ invoked = <<op>>

\* execute_query is past its send().
PastSend == pc \in {"text", "returned", "main", "exit"} /\ cli # NoCli

\* The variables object of the one request handed to send().
SentVariables == sent[1].body.o["variables"]

\* A JSON value as it stands in a printed line.
Verbatim(v) ==
    CASE v.t = "str" -> "\"" \o v.s \o "\""
      [] v.t = "null" -> "null"

\* The reported value of a field of the key object k.
Reported(k, field) ==
    IF HasMember(k, field) THEN Verbatim(k.o[field]) ELSE "\"N/A\""

(***************************************************************************)
(* C1                                                                      *)
(***************************************************************************)
\* C1 as stated: a decoded response with a non-empty errors sequence makes
\* execute_query fail, and the failure's message equals the ", "-joined
\* messages of the errors, in response order.
C1_MessageIsJoinedMessages ==
    HasErrors =>
        /\ ~result.ok
        /\ result.err.msg = CommaJoined(envelope.v.errors.v, Len(envelope.v.errors.v))

\* C1 amended: a decoded response with a non-empty errors sequence makes
\* execute_query fail with an API error, whatever data holds, and the
\* failure's message is "GraphQL errors: " followed by the ", "-joined
\* messages of the errors, in response order.
C1_MessageIsPrefixedJoinedMessages ==
    HasErrors =>
        /\ ~result.ok
        /\ result.err.kind = "api"
        /\ result.err.msg = "GraphQL errors: "
               \o CommaJoined(envelope.v.errors.v, Len(envelope.v.errors.v))

\* Two different errors next to data have been classified.
C1_Witness ==
    /\ HasErrors
    /\ Len(envelope.v.errors.v) = 2
    /\ envelope.v.errors.v[1].message # envelope.v.errors.v[2].message
    /\ envelope.v.data.some
    /\ ~result.ok

(***************************************************************************)
(* C2                                                                      *)
(***************************************************************************)
\* C2: a decoded response whose errors are absent, or present but empty,
\* makes execute_query succeed with data when data is present and with
\* null otherwise.
C2_NoErrorsIsSuccess ==
    NoErrors =>
        /\ result.ok
        /\ result.v = IF envelope.v.data.some THEN envelope.v.data.v ELSE JNull

C4_FieldsVerbatimOrPlaceholder ==
    (Returned("query") /\ result.ok /\ PathPresent(result.v)) =>
        LET k == KeyAt(result.v)
        IN  Printed = << "",
                         "API Key Details:",
                         "Key: " \o Reported(k, "key"),
                         "Name: " \o Reported(k, "name"),
                         "Type: " \o Reported(k, "type"),
                         "Notes: " \o Reported(k, "notes") >>

\* query_api_keys has reported the key object {key, name, type} that has no
\* notes.
C4_Witness ==
    /\ Returned("query") /\ result.ok /\ PathPresent(result.v)
    /\ KeyAt(result.v) = JObj(("key" :> JStr("abc")) @@ ("name" :> JStr("n"))
                                @@ ("type" :> JStr("USER")))
    /\ Printed[3] = "Key: \"abc\""
    /\ Printed[6] = "Notes: \"N/A\""

(***************************************************************************)
(* C5                                                                      *)
(***************************************************************************)
\* The variables C5 expects of query_api_keys.
C5_Expected ==
    IF cli.command.key_id.some /\ cli.command.key_type.some
    THEN ("id" :> JStr(cli.command.key_id.v))
             @@ ("keyType" :> JStr(cli.command.key_type.v))
    ELSE EmptyMap

\* C5: query_api_keys passes exactly {id, keyType} when both were supplied
\* and the empty mapping otherwise, always as a mapping, and the one request
\* it then sends carries that mapping.
C5_QueryVariables ==
    Called("query") =>
        /\ request.variables = Some(C5_Expected)
        /\ pc # "send" => (Len(sent) = 1 /\ SentVariables = JObj(C5_Expected))

\* A query with a key id and no key type has been sent with no variables.
C5_Witness ==
    /\ Called("query") /\ PastSend
    /\ cli.command.key_id.some /\ ~cli.command.key_type.some
    /\ SentVariables = JObj(EmptyMap)

(***************************************************************************)
(* C6                                                                      *)
(***************************************************************************)
\* C6: create_api_key passes accountId, keyType and name, and notes exactly
\* when notes was supplied; every value is the caller's string, as a JSON
\* string, and none is null.
C6_CreateVariables ==
    Called("create") =>
        LET v == request.variables.v
            c == cli.command
        IN  /\ request.variables.some
            /\ DOMAIN v = {"accountId", "keyType", "name"}
                              \cup (IF c.notes.some THEN {"notes"} ELSE {})
            /\ v["accountId"] = JStr(c.account_id)
            /\ v["keyType"] = JStr(c.key_type)
            /\ v["name"] = JStr(c.name)
            /\ c.notes.some => v["notes"] = JStr(c.notes.v)
            /\ \A k \in DOMAIN v : v[k].t = "str"
            /\ pc # "send" => (Len(sent) = 1 /\ SentVariables = JObj(v))

\* A create without notes has been sent.
C6_Witness ==
    /\ Called("create") /\ PastSend
    /\ ~cli.command.notes.some
    /\ DOMAIN SentVariables.o = {"accountId", "keyType", "name"}

(***************************************************************************)
(* C7                                                                      *)
(***************************************************************************)
\* C7: update_api_key passes keyId always, name exactly when a name was
\* supplied, notes exactly when notes was supplied, nothing else, and never
\* a null.
C7_UpdateVariables ==
    Called("update") =>
        LET v == request.variables.v
            c == cli.command
        IN  /\ request.variables.some
            /\ DOMAIN v = {"keyId"}
                              \cup (IF c.name.some THEN {"name"} ELSE {})
                              \cup (IF c.notes.some THEN {"notes"} ELSE {})
            /\ v["keyId"] = JStr(c.key_id)
            /\ c.name.some => v["name"] = JStr(c.name.v)
            /\ c.notes.some => v["notes"] = JStr(c.notes.v)
            /\ \A k \in DOMAIN v : v[k].t = "str"
            /\ pc # "send" => (Len(sent) = 1 /\ SentVariables = JObj(v))

\* An update with only a new name has been sent.
C7_Witness ==
    /\ Called("update") /\ PastSend
    /\ cli.command.name.some /\ ~cli.command.notes.some
    /\ DOMAIN SentVariables.o = {"keyId", "name"}

(***************************************************************************)
(* C8                                                                      *)
(***************************************************************************)
\* C8: delete_api_key sends the body {query: <delete document>, variables:
\* {keyId: k}}, k a single string and the only variable; and when the
\* response carries data and no errors, execute_query succeeds with exactly
\* that data, which delete_api_key prints and returns Ok.
C8_DeleteRequestAndPassThrough ==
    Called("delete") =>
        /\ pc # "send" =>
             /\ Len(sent) = 1
             /\ sent[1].body =
                    JObj(("query" :> JStr(DeleteDocument))
                         @@ ("variables" :>
                                JObj("keyId" :> JStr(cli.command.key_id))))
        /\ (Returned("delete") /\ NoErrors /\ envelope.v.data.some) =>
             /\ result = Ok(envelope.v.data.v)
             /\ Printed = << Pretty(envelope.v.data.v, 0) >>
             /\ ret = Ok(Unit)

(***************************************************************************)
(* C9                                                                      *)
(***************************************************************************)
\* A member of an object that is there and not null.
Filled(j, k) == HasMember(j, k) /\ j.o[k].t # "null"

\* {"line": int, "column": int}
LocationShaped(j) ==
    /\ j.t = "obj"
    /\ HasMember(j, "line") /\ j.o["line"].t = "num"
    /\ HasMember(j, "column") /\ j.o["column"].t = "num"

\* {"message": string, "locations"?: [location], "path"?: [string]}
ErrorShaped(j) ==
    /\ j.t = "obj"
    /\ HasMember(j, "message") /\ j.o["message"].t = "str"
    /\ Filled(j, "locations") =>
         /\ j.o["locations"].t = "arr"
         /\ \A i \in 1..Len(j.o["locations"].a) : LocationShaped(j.o["locations"].a[i])
    /\ Filled(j, "path") =>
         /\ j.o["path"].t = "arr"
         /\ \A i \in 1..Len(j.o["path"].a) : j.o["path"].a[i].t = "str"

\* {"data"?: any, "errors"?: [error]}
EnvelopeShaped(j) ==
    /\ j.t = "obj"
    /\ Filled(j, "errors") =>
         /\ j.o["errors"].t = "arr"
         /\ \A i \in 1..Len(j.o["errors"].a) : ErrorShaped(j.o["errors"].a[i])

\* C9: whatever the HTTP status, a body that was read is classified by its
\* content alone: an envelope with a non-empty errors array ends in the API
\* error, an envelope with data and no errors member ends in success with
\* that data, and a body that is not JSON or not an envelope ends in a
\* decode error, which is neither a transport error nor an API error.
C9_ClassifiedByBodyAlone ==
    envelope # Pending =>
        LET b == response.body
        IN  /\ (~b.json \/ ~EnvelopeShaped(b.doc)) =>
                 /\ ~envelope.ok
                 /\ ~result.ok
                 /\ result.err.kind = "decode"
            /\ (b.json /\ EnvelopeShaped(b.doc) /\ Filled(b.doc, "errors")
                  /\ Len(b.doc.o["errors"].a) > 0) =>
                 /\ ~result.ok
                 /\ result.err.kind = "api"
            /\ (b.json /\ EnvelopeShaped(b.doc) /\ Filled(b.doc, "data")
                  /\ ~HasMember(b.doc, "errors")) =>
                 result = Ok(b.doc.o["data"])

(***************************************************************************)
(* C10                                                                     *)
(***************************************************************************)
\* What C10 says of a run that failed: nothing printed by the builder, the
\* error of execute_query handed to main as it is, a failure exit.
FailurePropagated ==
    (pc \in {"main", "exit"} /\ cli # NoCli /\ ~result.ok) =>
        /\ Printed = << >>
        /\ ret = result
        /\ pc = "exit" => (exit.code # 0 /\ exit.result = result)

\* C10 as stated: every run that has exited invoked exactly one builder and
\* sent exactly one request, no run ever sends a second one, and a failed
\* run printed no result and ended in a failure carrying the error as is.
C10_EveryRunOneBuilderOneRequest ==
    /\ Len(invoked) <= 1 /\ Len(sent) <= 1
    /\ pc = "exit" => (Len(invoked) = 1 /\ Len(sent) = 1)
    /\ FailurePropagated

\* C10 amended: every run in which Cli::parse() returned invokes exactly one
\* builder, the one of the parsed command, and hands exactly one request to
\* send; no run ever sends a second one, and a failed run printed no result
\* and ended in a failure carrying the error as is.
C10_ParsedRunOneBuilderOneRequest ==
    /\ Len(invoked) <= 1 /\ Len(sent) <= 1
    /\ (pc = "exit" /\ cli # NoCli) =>
         (invoked = << cli.command.op >> /\ Len(sent) = 1)
    /\ FailurePropagated

\* A run has exited with status 1 on a decode error.
C10_Witness ==
    /\ pc = "exit" /\ cli # NoCli
    /\ ~result.ok /\ result.err.kind = "decode"
    /\ exit.code = 1
    /\ Len(sent) = 1

====
